---- MODULE Spec2Model ----
(***************************************************************************)
(* The receive path of the PGM transport (openpgm/pgm/recv.c):             *)
(* recvskb, on_upstream, on_peer, on_downstream, on_pgm, wait_for_event    *)
(* and the delivery call pgm_recvmsgv, as a state machine over the shared  *)
(* transport and one call record per calling thread.                       *)
(*                                                                         *)
(* The receive window, the timer, the wire parser and the peer list        *)
(* helpers live in other files of the library; they are modelled from the  *)
(* contracts the specification gives for them and their outcomes are       *)
(* inputs chosen by the environment.                                       *)
(***************************************************************************)
EXTENDS Integers, Sequences, FiniteSets, TLC

\* ------------------------------------------------------------------ bounds
\* largest message vector a caller passes (msg_len)
MaxMsgLen == 2
\* most contiguous APDUs a peer's receive window holds ready at once
MaxWin == 2
\* longest APDU, in bytes
MaxApduLen == 1
\* most passes of the read loop that are observed one by one
MaxPasses == 2
\* largest flat buffer handed to pgm_recvfrom
MaxBufLen == 2

\* sizeof(struct pgm_header): the common PGM header, in bytes
sizeof_pgm_header == 16

\* ------------------------------------------------------------- model values
Threads == {"t1", "t2"}
\* the threads that make delivery calls under Spec
Callers == {"t1"}
NoThread == "none"
\* transport session identifiers of remote sources
TSIs == {"T1", "T2"}
NoPeer == "nopeer"
\* rx_buffer: NULL, and the buffer the transport is created with; every
\* buffer pgm_alloc_skb hands out later has the next number
NullBuffer == 0
FirstBuffer == 1
\* no flat buffer: the call is not made through pgm_recvfrom
NoBuffer == -1
\* port numbers seen in PGM headers
Ports == {"p1", "p2", "p3"}
DownstreamTypes == {"ODATA", "RDATA", "NCF", "SPM", "POLL"}
UpstreamTypes == {"NAK", "NNAK", "SPMR", "POLR"}
PeerTypes == {"NAK", "SPMR"}
\* OTHER stands for every type code outside the nine PGM knows
Types == DownstreamTypes \cup UpstreamTypes \cup {"OTHER"}

VARIABLES transport, call, pkt
vars == <<transport, call, pkt>>

\* ------------------------------------------------------------------ helpers
InSeq(x, s) == \E i \in 1..Len(s) : s[i] = x

RECURSIVE SumLen(_, _)
\* number of APDUs ready in the windows of the peers listed in s
SumLen(win, s) ==
  IF s = <<>> THEN 0 ELSE Len(win[Head(s)]) + SumLen(win, Tail(s))

\* APDUs ready for delivery through peers_pending
Ready(tr) == SumLen(tr.window, tr.peers_pending)

\* the TSIs g_hash_table_lookup finds in peers_hashtable
Peers(tr) == { p \in TSIs : tr.peers_hashtable[p] > 0 }

\* cumulative_stats[k]++ on the transport, and cumulative_stats[k] += n on a
\* peer.  recv.c adds to the counters and never reads them; a transport with
\* counting off is the same machine with the counters out of sight.
Count(tr, k) ==
  IF tr.counting THEN [tr EXCEPT !.cumulative_stats[k] = @ + 1] ELSE tr
PeerCount(tr, p, k, n) ==
  IF tr.counting THEN [tr EXCEPT !.peer_stats[p][k] = @ + n] ELSE tr

\* ------------------------------------------- collaborators (other files)
\* pgm_is_downstream / pgm_is_upstream / pgm_is_peer
pgm_is_downstream(type) == type \in DownstreamTypes
pgm_is_upstream(type) == type \in UpstreamTypes
pgm_is_peer(type) == type \in PeerTypes

\* a peer has a contiguous run of deliverable APDUs
pgm_peer_has_pending(tr, p) == tr.window[p] # <<>>

\* append the peer to peers_pending unless it is already listed
pgm_peer_set_pending(tr, p) ==
  IF InSeq(p, tr.peers_pending) THEN tr
  ELSE [tr EXCEPT !.peers_pending = Append(@, p)]

\* create the peer for a TSI seen for the first time
pgm_new_peer(tr, tsi) == [tr EXCEPT !.peers_hashtable[tsi] = @ + 1]

\* a fresh skb, never NULL; the buffers are told apart where the counters
\* are followed (recv.c never compares two buffers)
pgm_alloc_skb(tr) ==
  IF tr.counting THEN [tr EXCEPT !.rx_buffer = @ + 1] ELSE tr

\* the receive window takes an ODATA/RDATA packet; in.apdu > 0 when the
\* packet completes a contiguous APDU of that length
pgm_on_data(tr, p, in) ==
  IF in.accept /\ in.apdu > 0
  THEN [tr EXCEPT !.window[p] = Append(@, in.apdu)]
  ELSE tr

\* what one timer dispatch can do: nothing, complete an APDU of a known
\* peer, or detect unrecoverable loss on a known peer
TimerEvents ==
  [kind : {"none"}, peer : {NoPeer}, apdu : {0}]
    \cup [kind : {"data"}, peer : TSIs, apdu : 1..MaxApduLen]
    \cup [kind : {"reset"}, peer : TSIs, apdu : {0}]

TimerEnabled(tr, ev) ==
  CASE ev.kind = "none" -> TRUE
    [] ev.kind = "data" -> ev.peer \in Peers(tr) /\ Len(tr.window[ev.peer]) < MaxWin
    [] ev.kind = "reset" -> ev.peer \in Peers(tr)

pgm_timer_dispatch(tr, ev) ==
  CASE ev.kind = "none" -> tr
    [] ev.kind = "data" ->
         pgm_peer_set_pending([tr EXCEPT !.window[ev.peer] = Append(@, ev.apdu)], ev.peer)
    [] ev.kind = "reset" ->
         pgm_peer_set_pending([tr EXCEPT !.is_reset = TRUE], ev.peer)

RECURSIVE pgm_flush_peers_pending(_)
\* Flush peers_pending into the caller's vector from pmsg up to msg_end, the
\* peers in list order, each peer's APDUs in sequence; a peer leaves the list
\* when its window has nothing more to deliver.  s = [tr, c, ret]; at the end
\* ret # 0 when the vector is full, and also while a reset is pending: the
\* peers then stay listed until the reset is reported (the assertions at
\* lines 583 and 721 of recv.c rely on it).
pgm_flush_peers_pending(s) ==
  LET tr == s.tr
      c == s.c
  IN  IF tr.is_reset THEN [s EXCEPT !.ret = 1]
      ELSE IF c.pmsg >= c.msg_len THEN [s EXCEPT !.ret = 1]
      ELSE IF tr.peers_pending = <<>> THEN [s EXCEPT !.ret = 0]
      ELSE LET p == Head(tr.peers_pending)
               w == tr.window[p]
           IN  IF w = <<>>
               THEN pgm_flush_peers_pending(
                      [s EXCEPT !.tr.peers_pending = Tail(@)])
               ELSE pgm_flush_peers_pending(
                      [s EXCEPT !.tr.window[p] = Tail(@),
                                !.tr.peers_pending =
                                   IF Len(w) = 1 THEN Tail(@) ELSE @,
                                !.c.pmsg = @ + 1,
                                !.c.data_read = @ + 1,
                                !.c.bytes_read = @ + Head(w)])

\* ------------------------------------------------------------ frames read
\* What one read of the socket yields besides its length: the parsed header
\* (type, dport, sport, whether the GSI is ours, the TSI), whether the wire
\* parser accepts the frame (and, when it does not, whether it failed at the
\* checksum), and what the per-type processor answers (accept; apdu > 0 when
\* the packet carries a payload of that many bytes that completes an APDU).
\* The transport's own ports are p1 (dport) and p2 (tsi.sport).  A field that
\* no handler reads on the frame's path is held at one value.
InvalidFrame ==
  [valid |-> FALSE, cksum |-> FALSE, type |-> "ODATA", dport |-> "p1",
   sport |-> "p1", gsi_ok |-> TRUE, tsi |-> "T1", accept |-> FALSE, apdu |-> 0]

\* a frame the wire parser rejects with PGM_PACKET_ERROR_CKSUM
CksumFrame == [InvalidFrame EXCEPT !.cksum = TRUE]

Frames ==
  { f \in [valid : BOOLEAN, cksum : BOOLEAN, type : Types, dport : Ports,
           sport : {"p1", "p2"}, gsi_ok : BOOLEAN, tsi : TSIs,
           accept : BOOLEAN, apdu : 0..MaxApduLen] :
      /\ (~f.valid => f \in {InvalidFrame, CksumFrame})
      /\ (f.valid => ~f.cksum)
      /\ (f.apdu > 0 => f.accept /\ f.type \in {"ODATA", "RDATA"})
      /\ (f.type \in {"POLL", "POLR", "OTHER"} => ~f.accept)
      /\ (f.type = "OTHER" => f.sport = "p1" /\ f.gsi_ok /\ f.tsi = "T1")
      /\ (f.type \in DownstreamTypes =>
            /\ f.sport = "p1" /\ f.gsi_ok
            /\ (f.dport # "p1" => ~f.accept /\ f.tsi = "T1"))
      /\ (f.type \notin DownstreamTypes /\ f.dport = "p2" =>
            /\ f.tsi = "T1"
            /\ (f.sport # "p1" \/ ~f.gsi_ok => ~f.accept))
      /\ (f.type \notin DownstreamTypes /\ f.dport # "p2" =>
            /\ f.gsi_ok
            /\ (f.type \notin PeerTypes \/ f.sport # "p1" =>
                  f.sport = "p1" \/ f.type \in PeerTypes)
            /\ (f.type \notin PeerTypes \/ f.sport # "p1" => f.tsi = "T1" /\ ~f.accept)) }

\* the model's windows hold at most MaxWin ready APDUs
FrameEnabled(tr, f) == f.apdu > 0 => Len(tr.window[f.tsi]) < MaxWin

\* skb->len when on_pgm is entered: the PGM header and what follows it (a
\* data frame that completes no APDU is taken with an empty payload)
skb_len(f) == sizeof_pgm_header + f.apdu

\* --------------------------------------------------------------- recvskb
\* rlen: what recvmsg returns (-1, 0, or a length); mandatory: the test at
\* line 133 (UDP encapsulation, or the family read through &src_addr);
\* pktinfo: a packet-info control message was found
recvskb(rlen, mandatory, pktinfo) ==
  IF mandatory /\ ~pktinfo THEN -1 ELSE rlen

\* ------------------------------------------------------------ on_upstream
\* The handlers answer [tr, ok, source, handler, proc]: the transport
\* afterwards, the boolean they return, what *source holds afterwards, which
\* handler on_pgm called, and which per-type processor the handler called.
on_upstream(tr, f) ==
  LET discarded == [tr |-> Count(tr, "SOURCE_PACKETS_DISCARDED"), ok |-> FALSE,
                    source |-> NoPeer, handler |-> "upstream", proc |-> "none"]
      done == [tr |-> tr, ok |-> TRUE, source |-> NoPeer, handler |-> "upstream",
               proc |-> "none"]
      by(proc, r) == [r EXCEPT !.proc = proc]
  IN  IF ~tr.can_send_data THEN discarded
      ELSE IF f.sport # tr.dport THEN discarded
      ELSE IF ~f.gsi_ok THEN discarded
      ELSE CASE f.type = "NAK" ->
                  by("pgm_on_nak", IF f.accept THEN done ELSE discarded)
             [] f.type = "NNAK" ->
                  by("pgm_on_nnak", IF f.accept THEN done ELSE discarded)
             [] f.type = "SPMR" ->
                  by("pgm_on_spmr", IF f.accept THEN done ELSE discarded)
             [] OTHER -> discarded

\* out_discarded of on_peer and on_downstream (lines 315-319, 410-414): the
\* peer *source names is charged, or else the transport when it is a source
out_discarded(tr, src, handler) ==
  [tr |-> IF src # NoPeer
          THEN PeerCount(tr, src, "RECEIVER_PACKETS_DISCARDED", 1)
          ELSE IF tr.can_send_data
          THEN Count(tr, "SOURCE_PACKETS_DISCARDED")
          ELSE tr,
   ok |-> FALSE, source |-> src, handler |-> handler, proc |-> "none"]

\* ---------------------------------------------------------------- on_peer
\* stale: what the caller's variable `source` holds on entry; pgm_recvmsgv
\* declares it without a value (line 662) and the early discards read it
on_peer(tr, f, stale) ==
  LET source == IF f.tsi \in Peers(tr) THEN f.tsi ELSE NoPeer
      done == [tr |-> tr, ok |-> TRUE, source |-> source, handler |-> "peer",
               proc |-> "none"]
      by(proc, r) == [r EXCEPT !.proc = proc]
  IN  IF ~tr.can_recv_data THEN out_discarded(tr, stale, "peer")
      ELSE IF f.sport # tr.dport THEN out_discarded(tr, stale, "peer")
      ELSE IF source = NoPeer THEN out_discarded(tr, NoPeer, "peer")
      ELSE CASE f.type = "NAK" ->
                  by("pgm_on_peer_nak",
                     IF f.accept THEN done ELSE out_discarded(tr, source, "peer"))
             [] f.type = "SPMR" ->
                  by("pgm_on_spmr",
                     IF f.accept THEN done ELSE out_discarded(tr, source, "peer"))
             [] OTHER -> out_discarded(tr, source, "peer")

\* -------------------------------------------------------- on_downstream
\* on_downstream that makes a new peer for every packet
on_downstream_always_new(tr, f, stale) ==
  LET source == f.tsi
      tr1 == PeerCount(pgm_new_peer(tr, f.tsi), source,
                       "RECEIVER_BYTES_RECEIVED", skb_len(f))
  IN  IF ~tr.can_recv_data \/ f.dport # tr.dport
      THEN out_discarded(tr, stale, "downstream")
      ELSE IF f.accept /\ f.type \in {"ODATA", "RDATA", "NCF", "SPM"}
      THEN [tr |-> IF f.type \in {"ODATA", "RDATA"}
                   THEN pgm_alloc_skb(pgm_on_data(tr1, source, f)) ELSE tr1,
            ok |-> TRUE, source |-> source, handler |-> "downstream",
            proc |-> "none"]
      ELSE out_discarded(tr1, source, "downstream")

\* on_downstream that takes a fresh rx_buffer for every packet it accepts
on_downstream_alloc_any(tr, f, stale) ==
  LET source == f.tsi
      tr0 == IF f.tsi \in Peers(tr) THEN tr ELSE pgm_new_peer(tr, f.tsi)
      tr1 == PeerCount(tr0, source, "RECEIVER_BYTES_RECEIVED", skb_len(f))
  IN  IF ~tr.can_recv_data \/ f.dport # tr.dport
      THEN out_discarded(tr, stale, "downstream")
      ELSE IF f.accept /\ f.type \in {"ODATA", "RDATA", "NCF", "SPM"}
      THEN [tr |-> pgm_alloc_skb(IF f.type \in {"ODATA", "RDATA"}
                                 THEN pgm_on_data(tr1, source, f) ELSE tr1),
            ok |-> TRUE, source |-> source, handler |-> "downstream",
            proc |-> "none"]
      ELSE out_discarded(tr1, source, "downstream")

\* lines 345-414.  The peer is looked up, and made when it is not found,
\* before the type of the packet is looked at (362-371); rx_buffer is
\* replaced after pgm_on_data took the packet (384-386).
on_downstream(tr, f, stale) ==
  LET source == f.tsi
      tr0 == IF f.tsi \in Peers(tr) THEN tr ELSE pgm_new_peer(tr, f.tsi)
      tr1 == PeerCount(tr0, source, "RECEIVER_BYTES_RECEIVED", skb_len(f))
      done(t) == [tr |-> t, ok |-> TRUE, source |-> source,
                  handler |-> "downstream", proc |-> "none"]
      by(proc, r) == [r EXCEPT !.proc = proc]
  IN  IF ~tr.can_recv_data THEN out_discarded(tr, stale, "downstream")
      ELSE IF f.dport # tr.dport THEN out_discarded(tr, stale, "downstream")
      ELSE CASE f.type \in {"ODATA", "RDATA"} ->
                  by("pgm_on_data",
                     IF f.accept
                     THEN done(pgm_alloc_skb(pgm_on_data(tr1, source, f)))
                     ELSE out_discarded(tr1, source, "downstream"))
             [] f.type = "NCF" ->
                  by("pgm_on_ncf",
                     IF f.accept THEN done(tr1)
                     ELSE out_discarded(tr1, source, "downstream"))
             [] f.type = "SPM" ->
                  by("pgm_on_spm",
                     IF f.accept THEN done(tr1)
                     ELSE out_discarded(tr1, source, "downstream"))
             [] OTHER -> out_discarded(tr1, source, "downstream")

\* ----------------------------------------------------------------- on_pgm
\* on_pgm that hands every frame addressed to another port to on_peer
on_pgm_peer_any(tr, f, stale) ==
  IF pgm_is_downstream(f.type) THEN on_downstream(tr, f, stale)
  ELSE IF f.dport = tr.sport /\ (pgm_is_upstream(f.type) \/ pgm_is_peer(f.type))
  THEN on_upstream(tr, f)
  ELSE IF f.dport # tr.sport
  THEN on_peer(tr, f, stale)
  ELSE [tr |-> IF tr.can_send_data
               THEN Count(tr, "SOURCE_PACKETS_DISCARDED") ELSE tr,
        ok |-> FALSE, source |-> stale, handler |-> "none", proc |-> "none"]

on_pgm(tr, f, stale) ==
  IF pgm_is_downstream(f.type) THEN on_downstream(tr, f, stale)
  ELSE IF f.dport = tr.sport /\ (pgm_is_upstream(f.type) \/ pgm_is_peer(f.type))
  THEN on_upstream(tr, f)
  ELSE IF f.dport # tr.sport /\ pgm_is_peer(f.type)
  THEN on_peer(tr, f, stale)
  ELSE [tr |-> IF tr.can_send_data
               THEN Count(tr, "SOURCE_PACKETS_DISCARDED") ELSE tr,
        ok |-> FALSE, source |-> stale, handler |-> "none", proc |-> "none"]

\* ------------------------------------------------------- the delivery call
Statuses == {"none", "Normal", "Again", "Eof", "Error"}

\* the record of one thread's call: its arguments, its locals, its position
\* (pc) and what it handed back to the caller
NewCall(dontwait, errqueue, msg_len) ==
  [pc |-> "idle", dontwait |-> dontwait, errqueue |-> errqueue,
   msg_len |-> msg_len, pmsg |-> 0, bytes_read |-> 0, data_read |-> 0,
   ready |-> "none", status |-> "none", bytes_out |-> 0, error |-> "none",
   error_peer |-> NoPeer, msgv_reset |-> NoPeer,
   \* how the call was entered: with is_reset set (fast), and with more
   \* APDUs ready in peers_pending than the vector holds (overfull)
   \* and whether a read of the socket returned zero length (zero_read)
   fast |-> FALSE, overfull |-> FALSE, zero_read |-> FALSE,
   \* what the last wait_for_event of the call was given and answered
   timeout |-> 1, wait_status |-> "none",
   \* a timer dispatch of this call completed an APDU
   timer_data |-> FALSE,
   \* pgm_recvfrom: the size of the caller's flat buffer (NoBuffer when the
   \* call is not made through pgm_recvfrom)
   len |-> NoBuffer]

Goto(s, pc) == [s EXCEPT !.c.pc = pc]

\* pgm_recvfrom, lines 822-845, after pgm_recvmsg returned Normal: the APDU
\* (one skb of bytes_read bytes) is copied into the buffer of len bytes.
\* g_error logs at G_LOG_LEVEL_ERROR, which GLib makes fatal: it aborts.
recvfrom_copy(s) ==
  IF s.c.bytes_read > s.c.len
  THEN Goto(s, "abort")
  ELSE [s EXCEPT !.c.pc = "idle", !.c.status = "Normal",
                 !.c.bytes_out = s.c.bytes_read]

\* return from pgm_recvmsgv, and from pgm_recvfrom when the call came
\* through it (lines 819-821: any status but Normal is handed on)
Return(s, status) ==
  IF s.c.len # NoBuffer /\ status = "Normal"
  THEN recvfrom_copy(s)
  ELSE [s EXCEPT !.c.pc = "idle", !.c.status = status]

pgm_notify_clear(tr) == [tr EXCEPT !.pending_notify = FALSE]
pgm_notify_send(tr) == [tr EXCEPT !.pending_notify = TRUE]
g_static_mutex_lock(tr, t) == [tr EXCEPT !.pending_mutex = t]
g_static_mutex_unlock(tr) == [tr EXCEPT !.pending_mutex = NoThread]

\* report_reset that leaves is_reset as it found it
report_reset_no_clear(s) ==
  IF s.tr.peers_pending = <<>>
  THEN Goto(s, "abort")
  ELSE LET peer == Head(s.tr.peers_pending)
           c1 == IF s.c.errqueue
                 THEN [s.c EXCEPT !.msgv_reset = peer]
                 ELSE [s.c EXCEPT !.error = "ConnReset", !.error_peer = peer]
       IN  Return([s EXCEPT !.c = c1], "Eof")

\* lines 582-600 and 720-738: report the reset, naming the first pending peer
report_reset(s) ==
  IF s.tr.peers_pending = <<>>
  THEN Goto(s, "abort")                      \* g_assert at 583 / 721
  ELSE LET peer == Head(s.tr.peers_pending)
           c1 == IF s.c.errqueue
                 THEN [s.c EXCEPT !.msgv_reset = peer]
                 ELSE [s.c EXCEPT !.error = "ConnReset", !.error_peer = peer]
           tr1 == IF ~s.tr.is_abort_on_reset
                  THEN [s.tr EXCEPT !.is_reset = ~s.tr.is_reset]
                  ELSE s.tr
       IN  Return([s EXCEPT !.tr = tr1, !.c = c1], "Eof")

\* out without the test of data_read: every call ends as a delivery
out_always_normal(s) ==
  Return([s EXCEPT !.tr = g_static_mutex_unlock(s.tr),
                   !.c.bytes_out = s.c.bytes_read], "Normal")

\* out with the test of data_read always taken: every call ends as empty
out_always_empty(s) ==
  LET tr1 == IF s.tr.is_pending_read
             THEN [pgm_notify_clear(s.tr) EXCEPT !.is_pending_read = FALSE]
             ELSE s.tr
  IN  Goto([s EXCEPT !.tr = g_static_mutex_unlock(tr1)], "out_reset")

\* out that never fills the pending pipe
out_no_signal(s) ==
  IF s.c.data_read = 0
  THEN out_always_empty(s)
  ELSE LET tr1 ==
             IF s.tr.peers_pending # <<>> /\ s.tr.is_pending_read
                  /\ s.tr.is_edge_triggered_recv
             THEN [pgm_notify_clear(s.tr) EXCEPT !.is_pending_read = FALSE]
             ELSE s.tr
       IN  Return([s EXCEPT !.tr = g_static_mutex_unlock(tr1),
                            !.c.bytes_out = s.c.bytes_read], "Normal")

\* out: lines 710-718 and 743-763
out(s) ==
  IF s.c.data_read = 0
  THEN LET tr1 == IF s.tr.is_pending_read
                  THEN [pgm_notify_clear(s.tr) EXCEPT !.is_pending_read = FALSE]
                  ELSE s.tr
       IN  Goto([s EXCEPT !.tr = g_static_mutex_unlock(tr1)], "out_reset")
  ELSE LET tr1 ==
             IF s.tr.peers_pending # <<>>
             THEN IF s.tr.is_pending_read /\ s.tr.is_edge_triggered_recv
                  THEN [pgm_notify_clear(s.tr) EXCEPT !.is_pending_read = FALSE]
                  ELSE IF ~s.tr.is_pending_read /\ ~s.tr.is_edge_triggered_recv
                  THEN [pgm_notify_send(s.tr) EXCEPT !.is_pending_read = TRUE]
                  ELSE s.tr
             ELSE s.tr
       IN  Return([s EXCEPT !.tr = g_static_mutex_unlock(tr1),
                            !.c.bytes_out = s.c.bytes_read], "Normal")

\* check_for_repeat that takes the blocking branch whatever the flags
check_for_repeat_blocking(s, len) ==
  IF s.c.data_read = 0 THEN Goto(s, "wait") ELSE out(s)

\* check_for_repeat: lines 679-708, up to the call of wait_for_event
check_for_repeat(s, len) ==
  IF s.c.dontwait
  THEN IF len > 0 /\ s.c.pmsg < s.c.msg_len
       THEN Goto(s, "recv_again") ELSE out(s)
  ELSE IF s.c.data_read = 0
       THEN Goto(s, "wait") ELSE out(s)

\* lines 617-620 and 674-677: flush when peers are pending
flush_if_pending(s) ==
  IF s.tr.peers_pending # <<>>
  THEN pgm_flush_peers_pending(s)
  ELSE [s EXCEPT !.ret = 0]

\* flush_pending: lines 672-677, then check_for_repeat
flush_pending(s, len) ==
  LET s1 == flush_if_pending(s)
  IN  IF s1.ret # 0 THEN out(s1) ELSE check_for_repeat(s1, len)

\* the start of the call without the "goto out" after a full flush
recvmsgv_start_no_goto(s, t, due, ev) ==
  LET tr1 == g_static_mutex_lock(s.tr, t)
      s1 == IF due
            THEN [s EXCEPT !.tr = pgm_timer_dispatch(tr1, ev)]
            ELSE [s EXCEPT !.tr = tr1]
  IN  Goto(flush_if_pending(s1), "recv_again")

\* lines 603-620: take the mutex, run a due timer, flush what is pending
recvmsgv_start(s, t, due, ev) ==
  LET tr1 == g_static_mutex_lock(s.tr, t)
      s1 == IF due
            THEN [s EXCEPT !.tr = pgm_timer_dispatch(tr1, ev),
                           !.c.timer_data = (ev.kind = "data")]
            ELSE [s EXCEPT !.tr = tr1]
      s2 == flush_if_pending(s1)
  IN  IF s2.ret # 0 THEN out(s2) ELSE Goto(s2, "recv_again")

\* lines 650-660: a frame the wire parser rejects
discard_invalid(tr, f) ==
  IF tr.can_send_data
  THEN Count(IF f.cksum THEN Count(tr, "SOURCE_CKSUM_ERRORS") ELSE tr,
             "SOURCE_PACKETS_DISCARDED")
  ELSE tr

\* recv_again: lines 630-670, then flush_pending
recv_again(s, rlen, mandatory, pktinfo, f, stale) ==
  LET len == recvskb(rlen, mandatory, pktinfo)
      s0 == IF rlen = 0 THEN [s EXCEPT !.c.zero_read = TRUE] ELSE s
  IN  IF len < 0 THEN check_for_repeat(s0, len)
      ELSE IF len = 0 THEN out(s0)
      ELSE IF ~f.valid
      THEN Goto([s0 EXCEPT !.tr = discard_invalid(s0.tr, f)], "recv_again")
      ELSE LET r == on_pgm(s0.tr, f, stale)
           IN  IF ~r.ok THEN Goto([s0 EXCEPT !.tr = r.tr], "recv_again")
               ELSE LET tr2 == IF r.source # NoPeer /\ pgm_peer_has_pending(r.tr, r.source)
                               THEN pgm_peer_set_pending(r.tr, r.source)
                               ELSE r.tr
                    IN  flush_pending([s0 EXCEPT !.tr = tr2], len)

\* what pgm_timer_expiration can answer: the microseconds until the timer
\* is due, 0 when it is due already
TimerExpirations == {0, 1}

\* what poll or select can answer: an error, the receive socket readable,
\* another descriptor of the set readable, both, or the time ran out
PollAnswers == {"error", "sock", "other", "both", "timeout"}

\* wait_for_event, lines 478-511: build the poll set, drain the notification,
\* release the mutex.  timeout: what pgm_timer_expiration answered (line
\* 692); info_ok: pgm_transport_poll_info did not fail
wait_for_event_enter(s, timeout, info_ok) ==
  LET s0 == [s EXCEPT !.c.timeout = timeout, !.c.wait_status = "none",
                      !.c.ready = "none"]
  IN  IF timeout = 0 THEN Goto(s0, "abort")                  \* g_assert at 482
      ELSE IF ~info_ok
      THEN Return([s0 EXCEPT !.c.error = "WaitForEvent",
                             !.c.wait_status = "EFAULT"], "Error")
      ELSE LET tr1 == IF s.tr.is_pending_read
                      THEN [pgm_notify_clear(s.tr) EXCEPT !.is_pending_read = FALSE]
                      ELSE s.tr
           IN  Goto([s0 EXCEPT !.tr = g_static_mutex_unlock(tr1)], "poll")

\* wait_for_event, lines 513-526: the poll/select call itself
wait_for_event_poll(s, ready) ==
  IF ready = "error"
  THEN Return([s EXCEPT !.c.error = "WaitForEvent", !.c.ready = ready,
                        !.c.wait_status = "EFAULT"], "Error")
  ELSE Goto([s EXCEPT !.c.ready = ready], "relock")

\* wait_for_event that answers EAGAIN whenever poll did not fail
wait_for_event_leave_eagain(s, t, ev) ==
  Goto([s EXCEPT !.tr = g_static_mutex_lock(s.tr, t),
                 !.c.wait_status = "EAGAIN"], "recv_again")

\* wait_for_event that is followed by no flush after EINTR
wait_for_event_leave_no_flush(s, t, ev) ==
  LET s1 == [s EXCEPT !.tr = g_static_mutex_lock(s.tr, t)]
  IN  IF s.c.ready \in {"sock", "both"}
      THEN Goto([s1 EXCEPT !.c.wait_status = "EAGAIN"], "recv_again")
      ELSE check_for_repeat([s1 EXCEPT !.tr = pgm_timer_dispatch(s1.tr, ev),
                                      !.c.timer_data = @ \/ ev.kind = "data",
                                      !.c.wait_status = "EINTR"], 1)

\* wait_for_event, lines 527-540, and what pgm_recvmsgv does with its
\* answer, lines 694-698
wait_for_event_leave(s, t, ev) ==
  LET s1 == [s EXCEPT !.tr = g_static_mutex_lock(s.tr, t)]
  IN  IF s.c.ready \in {"sock", "both"}
      THEN Goto([s1 EXCEPT !.c.wait_status = "EAGAIN"], "recv_again")
      ELSE flush_pending([s1 EXCEPT !.tr = pgm_timer_dispatch(s1.tr, ev),
                                    !.c.timer_data = @ \/ ev.kind = "data",
                                    !.c.wait_status = "EINTR"], 1)

\* lines 719-740: after the mutex is released
out_reset(s) ==
  IF s.tr.is_reset THEN report_reset(s) ELSE Return(s, "Again")

\* ------------------------------------------------------------------ actions
St(t) == [tr |-> transport, c |-> call[t], ret |-> 0]

Commit(t, s) ==
  /\ transport' = s.tr
  /\ call' = [call EXCEPT ![t] = s.c]

\* pkt: the frame the last observed pass of the read loop took and what
\* became of it (read: recvskb returned a length; handler: who rejected or
\* took it; n: the passes observed so far).  It is an observation, not
\* state of the program.
NoPkt ==
  [n |-> 0, read |-> FALSE, f |-> InvalidFrame, stale |-> NoPeer, ok |-> FALSE,
   handler |-> "none", source |-> NoPeer, proc |-> "none"]

Observe(tr, len, f, stale, n) ==
  IF len <= 0 THEN [NoPkt EXCEPT !.n = n + 1]
  ELSE IF ~f.valid
  THEN [n |-> n + 1, read |-> TRUE, f |-> f, stale |-> stale, ok |-> FALSE,
        handler |-> "parser", source |-> stale, proc |-> "none"]
  ELSE LET r == on_pgm(tr, f, stale)
       IN  [n |-> n + 1, read |-> TRUE, f |-> f, stale |-> stale, ok |-> r.ok,
            handler |-> r.handler, source |-> r.source, proc |-> r.proc]

\* the frames on whose path the value `source` held before is read: the
\* discards of on_peer and on_downstream that come before the peer lookup
ReadsStale(tr, f) ==
  /\ f.valid
  /\ \/ pgm_is_downstream(f.type) /\ (~tr.can_recv_data \/ f.dport # tr.dport)
     \/ /\ ~pgm_is_downstream(f.type) /\ f.dport # tr.sport /\ pgm_is_peer(f.type)
        /\ (~tr.can_recv_data \/ f.sport # tr.dport)

\* the entry without the reset fast path
recvmsgv_enter_no_fast(tr, dontwait, errqueue, msg_len) ==
  [NewCall(dontwait, errqueue, msg_len) EXCEPT
     !.pc = "lock",
     !.fast = tr.is_reset,
     !.overfull = Ready(tr) > msg_len]

\* lines 566-582: the arguments are taken and is_reset is tested
recvmsgv_enter(tr, dontwait, errqueue, msg_len) ==
  [NewCall(dontwait, errqueue, msg_len) EXCEPT
     !.pc = IF tr.is_reset THEN "reset" ELSE "lock",
     !.fast = tr.is_reset,
     !.overfull = Ready(tr) > msg_len]

\* a thread calls pgm_recvmsgv on a bound transport
pgm_recvmsgv(t) ==
  /\ call[t].pc = "idle"
  /\ \E dontwait \in BOOLEAN, errqueue \in BOOLEAN, msg_len \in 0..MaxMsgLen :
       call' = [call EXCEPT ![t] = recvmsgv_enter(transport, dontwait, errqueue, msg_len)]
  /\ UNCHANGED <<transport, pkt>>

\* the reset fast path: lines 583-599
ResetFastPath(t) ==
  /\ call[t].pc = "reset"
  /\ Commit(t, report_reset(St(t)))
  /\ UNCHANGED pkt

\* lines 603-620
Start(t) ==
  /\ call[t].pc = "lock"
  /\ transport.pending_mutex = NoThread
  /\ \E due \in BOOLEAN, ev \in TimerEvents :
       /\ TimerEnabled(transport, ev)
       /\ (~due => ev.kind = "none")
       /\ Commit(t, recvmsgv_start(St(t), t, due, ev))
  /\ UNCHANGED pkt

\* one pass from recv_again.  rlen is what recvmsg returns; garbage6 is what
\* the family test reads through &src_addr (line 134); pktinfo is whether a
\* packet-info control message is found when one is looked for; stale is
\* what the variable `source` holds before on_pgm is called (NULL, or an
\* address that out_discarded then takes for a peer, peer_stats[p] being what
\* lies there; it matters only to the counters).  The pass is observed in pkt when
\* observe is set.
RecvWith(t, observe) ==
  /\ call[t].pc = "recv_again"
  /\ observe => pkt.n < MaxPasses
  /\ \E rlen \in {-1, 0, 1}, garbage6 \in BOOLEAN, pktinfo \in BOOLEAN :
       LET mandatory == transport.udp_encap_ucast_port \/ garbage6
           len == recvskb(rlen, mandatory, pktinfo)
       IN  /\ (~mandatory => pktinfo)
           /\ (transport.udp_encap_ucast_port => ~garbage6)
           /\ \E f \in (IF len > 0 THEN Frames ELSE {InvalidFrame}) :
                \E stale \in (IF transport.counting /\ len > 0
                                    /\ ReadsStale(transport, f)
                               THEN TSIs \cup {NoPeer}
                               ELSE {NoPeer}) :
                  /\ FrameEnabled(transport, f)
                  /\ Commit(t, recv_again(St(t), rlen, mandatory, pktinfo, f, stale))
                  /\ pkt' = IF observe
                            THEN Observe(transport, len, f, stale, pkt.n)
                            ELSE pkt

RecvAgain(t) == RecvWith(t, FALSE)

WaitEnter(t) ==
  /\ call[t].pc = "wait"
  /\ \E timeout \in TimerExpirations, info_ok \in BOOLEAN :
       /\ (timeout = 0 => info_ok)
       /\ Commit(t, wait_for_event_enter(St(t), timeout, info_ok))
  /\ UNCHANGED pkt

WaitPoll(t) ==
  /\ call[t].pc = "poll"
  /\ \E ready \in PollAnswers :
       Commit(t, wait_for_event_poll(St(t), ready))
  /\ UNCHANGED pkt

WaitLeave(t) ==
  /\ call[t].pc = "relock"
  /\ transport.pending_mutex = NoThread
  /\ \E ev \in TimerEvents :
       /\ TimerEnabled(transport, ev)
       /\ (call[t].ready \in {"sock", "both"} => ev.kind = "none")
       /\ Commit(t, wait_for_event_leave(St(t), t, ev))
  /\ UNCHANGED pkt

OutReset(t) ==
  /\ call[t].pc = "out_reset"
  /\ Commit(t, out_reset(St(t)))
  /\ UNCHANGED pkt

Step(t) ==
  \/ pgm_recvmsgv(t)
  \/ ResetFastPath(t)
  \/ Start(t)
  \/ RecvAgain(t)
  \/ WaitEnter(t)
  \/ WaitPoll(t)
  \/ WaitLeave(t)
  \/ OutReset(t)

InitTransport ==
  [is_reset : {FALSE}, is_abort_on_reset : BOOLEAN,
   is_edge_triggered_recv : BOOLEAN, is_pending_read : {FALSE},
   pending_notify : {FALSE}, pending_mutex : {NoThread},
   peers_pending : {<<>>}, rx_buffer : {FirstBuffer},
   peers_hashtable : {[p \in TSIs |-> 0], [p \in TSIs |-> 1]},
   window : {[p \in TSIs |-> <<>>]},
   can_send_data : BOOLEAN, can_recv_data : BOOLEAN,
   counting : BOOLEAN,
   cumulative_stats : {[k \in {"SOURCE_PACKETS_DISCARDED",
                                "SOURCE_CKSUM_ERRORS"} |-> 0]},
   peer_stats : {[p \in TSIs |->
                    [k \in {"RECEIVER_PACKETS_DISCARDED",
                             "RECEIVER_BYTES_RECEIVED"} |-> 0]]},
   udp_encap_ucast_port : BOOLEAN, dport : {"p1"}, sport : {"p2"}]

Init ==
  /\ transport \in { tr \in InitTransport :
                        /\ Peers(tr) = {} /\ ~tr.counting
                        /\ tr.can_send_data /\ tr.can_recv_data }
  /\ call = [t \in Threads |-> NewCall(FALSE, FALSE, 0)]
  /\ pkt = NoPkt

Next == \E t \in Callers : Step(t)

Spec == Init /\ [][Next]_vars

\* the calling thread keeps running: a call in progress takes its next step
\* (poll comes back at the latest when the timeout has run out), and a
\* caller whose call returned calls again
SpecLive == Init /\ [][Next]_vars /\ WF_vars(Next)

\* ---------------------------------------------------- concurrent callers
\* Several threads call pgm_recvmsgv with MSG_DONTWAIT on a transport that
\* already knows its peers, while the socket has nothing to read: what
\* arrives comes from the timer.
pgm_recvmsgv_dontwait(t) ==
  /\ call[t].pc = "idle"
  /\ \E errqueue \in BOOLEAN, msg_len \in 1..MaxMsgLen :
       call' = [call EXCEPT ![t] = recvmsgv_enter(transport, TRUE, errqueue, msg_len)]
  /\ UNCHANGED <<transport, pkt>>

\* recv_again when recvmsg has nothing to return (-1, EAGAIN)
RecvNothing(t) ==
  /\ call[t].pc = "recv_again"
  /\ Commit(t, recv_again(St(t), -1, FALSE, TRUE, InvalidFrame, NoPeer))
  /\ UNCHANGED pkt

StepMT(t) ==
  \/ pgm_recvmsgv_dontwait(t)
  \/ ResetFastPath(t)
  \/ Start(t)
  \/ RecvNothing(t)
  \/ OutReset(t)

InitMT ==
  /\ transport \in { tr \in InitTransport :
                        /\ Peers(tr) = TSIs /\ ~tr.udp_encap_ucast_port
                        /\ ~tr.counting
                        /\ tr.can_send_data /\ tr.can_recv_data }
  /\ call = [t \in Threads |-> NewCall(FALSE, FALSE, 0)]
  /\ pkt = NoPkt

NextMT == \E t \in Threads : StepMT(t)

SpecMT == InitMT /\ [][NextMT]_vars

\* ------------------------------------------------- the flat-buffer call
\* pgm_recvfrom, lines 799-821 (pgm_recv, lines 848-865, is the same call
\* with no address to fill): pgm_recvmsg, that is pgm_recvmsgv with a vector
\* of one message and MSG_ERRQUEUE taken off the flags, then the copy when
\* it returns Normal (recvfrom_copy, reached through Return)
pgm_recvfrom(t) ==
  /\ call[t].pc = "idle"
  /\ \E dontwait \in BOOLEAN, len \in 0..MaxBufLen :
       call' = [call EXCEPT ![t] =
                  [recvmsgv_enter(transport, dontwait, FALSE, 1) EXCEPT !.len = len]]
  /\ UNCHANGED <<transport, pkt>>

StepFrom(t) ==
  \/ pgm_recvfrom(t)
  \/ ResetFastPath(t)
  \/ Start(t)
  \/ RecvAgain(t)
  \/ WaitEnter(t)
  \/ WaitPoll(t)
  \/ WaitLeave(t)
  \/ OutReset(t)

NextFrom == \E t \in Callers : StepFrom(t)

SpecFrom == Init /\ [][NextFrom]_vars

\* ------------------------------------------------------ the read loop seen
\* The read loop of one MSG_DONTWAIT call, every pass observed in pkt: the
\* transport counts, is a source or not and a receiver or not, and knows no
\* peer or both when the call reaches recv_again with room for MaxMsgLen
\* messages.
RecvPkt(t) == RecvWith(t, TRUE)

InitPkt ==
  /\ \E tr \in InitTransport :
       /\ tr.counting
       /\ ~tr.udp_encap_ucast_port
       /\ ~tr.is_abort_on_reset
       /\ ~tr.is_edge_triggered_recv
       \* only on_downstream makes peers, and none without can_recv_data
       /\ (Peers(tr) # {} => tr.can_recv_data)
       /\ transport = g_static_mutex_lock(tr, "t1")
  /\ call = [t \in Threads |->
               IF t = "t1"
               THEN [recvmsgv_enter(transport, TRUE, FALSE, MaxMsgLen)
                       EXCEPT !.pc = "recv_again"]
               ELSE NewCall(FALSE, FALSE, 0)]
  /\ pkt = NoPkt

NextPkt == \E t \in Callers : RecvPkt(t)

SpecPkt == InitPkt /\ [][NextPkt]_vars

TypeOK ==
  /\ Peers(transport) \subseteq TSIs
  /\ \A t \in Threads : call[t].status \in Statuses

\* ------------------------------------------------------------------ claims
Returned(t) == call[t].pc = "idle" /\ call[t].status # "none"
InWait(t) == call[t].pc \in {"wait", "poll", "relock"}
Reading(t) == call[t].pc \in {"recv_again", "wait", "poll", "relock"}

\* C1: every call that returns Normal has delivered at least one APDU into
\* the caller's vector (data_read > 0) and reports bytes_read > 0
C1_NormalDelivers ==
  \A t \in Threads :
    Returned(t) /\ call[t].status = "Normal" =>
      call[t].data_read > 0 /\ call[t].pmsg > 0 /\ call[t].bytes_out > 0

C1_Witness ==
  \E t \in Threads :
    Returned(t) /\ call[t].status = "Normal" /\ call[t].bytes_out > 0

\* C2: every call that returns Again has written no APDU to the caller's
\* vector: its flushes of peers_pending delivered nothing
C2_AgainWritesNothing ==
  \A t \in Threads :
    Returned(t) /\ call[t].status = "Again" =>
      call[t].pmsg = 0 /\ call[t].data_read = 0 /\ call[t].msgv_reset = NoPeer

C2_Witness ==
  \E t \in Threads :
    /\ Returned(t) /\ call[t].status = "Again"
    /\ Peers(transport) # {}

\* C3: a call made with DONTWAIT never enters wait_for_event, and when it
\* ends with no APDU delivered and no reset to report it returns Again
C3_DontWaitNeverWaits ==
  \A t \in Threads :
    call[t].dontwait =>
      /\ ~InWait(t)
      /\ (Returned(t) /\ call[t].pmsg = 0 /\ call[t].status # "Eof" =>
            call[t].status = "Again")

C3_Witness ==
  \E t \in Threads :
    /\ Returned(t) /\ call[t].dontwait /\ call[t].status = "Again"
    /\ call[t].pmsg = 0

\* C4: on every exit path of a call that took pending_mutex, the calling
\* thread has released it: no thread is outside a call holding the mutex
C4_MutexReleasedOnExit ==
  \A t \in Threads :
    call[t].pc = "idle" => transport.pending_mutex # t

\* one step of a call entered while is_reset is set
C5_ResetFastPathStep ==
  \A t \in Threads :
    /\ (call[t].pc = "idle" /\ call'[t] # call[t] /\ transport.is_reset =>
          call'[t].pc = "reset" /\ call'[t].fast)
    /\ (call[t].pc = "reset" /\ call'[t] # call[t] =>
          /\ call'[t].pc = "idle" /\ call'[t].status = "Eof"
          /\ transport.peers_pending # <<>>
          /\ LET peer == Head(transport.peers_pending)
             IN  IF call[t].errqueue
                 THEN call'[t].msgv_reset = peer /\ call'[t].error = "none"
                 ELSE /\ call'[t].error = "ConnReset"
                      /\ call'[t].error_peer = peer
                      /\ call'[t].msgv_reset = NoPeer
          /\ call'[t].pmsg = 0 /\ call'[t].data_read = 0
          /\ call'[t].bytes_out = 0
          /\ \E r \in BOOLEAN : transport' = [transport EXCEPT !.is_reset = r])

\* C5: a call entered while is_reset is set returns Eof naming the first
\* peer of peers_pending (in msg_start with ERRQUEUE, otherwise as a
\* ConnReset error) and touches nothing but is_reset: no timer run, no
\* socket read, no flush, no APDU delivered
C5_ResetFastPath == [][C5_ResetFastPathStep]_vars

C5_Witness ==
  \E t \in Threads :
    /\ Returned(t) /\ call[t].fast /\ call[t].status = "Eof"
    /\ Len(transport.peers_pending) > 1

\* one step that returns Eof, and the step that follows such a return
C6_ReportedOnceStep ==
  \A t \in Threads :
    /\ (call[t].pc # "idle" /\ call'[t].pc = "idle" /\ call'[t].status = "Eof" =>
          /\ transport.is_reset
          /\ transport'.is_reset = transport.is_abort_on_reset)
    /\ (Returned(t) /\ call[t].status = "Eof" /\ call'[t] # call[t]
          /\ ~transport.is_abort_on_reset =>
          call'[t].pc = "lock" /\ ~call'[t].fast)

\* C6: with is_abort_on_reset false a reset is reported by one call: the
\* call that returns Eof leaves is_reset false and the next call does not
\* take the reset path again; with is_abort_on_reset true it leaves it set
C6_ReportedOnce == [][C6_ReportedOnceStep]_vars

C6_Witness ==
  \E t \in Threads :
    /\ Returned(t) /\ call[t].status = "Eof" /\ ~call[t].fast
    /\ ~transport.is_abort_on_reset /\ ~transport.is_reset

\* C7: when a read of the socket returns zero length, the call in progress
\* returns Eof at its end
C7_ZeroReadGivesEof ==
  \A t \in Threads :
    Returned(t) /\ call[t].zero_read => call[t].status = "Eof"

\* C8 as stated: a call never delivers more than msg_len APDUs, and one
\* entered with more APDUs ready than the vector holds delivers exactly
\* msg_len, reads no socket, returns Normal, leaves the remaining peers in
\* peers_pending and, level-triggered, leaves the notification signalled
C8_Original ==
  \A t \in Threads :
    /\ call[t].pmsg <= call[t].msg_len
    /\ (call[t].overfull => ~Reading(t))
    /\ (Returned(t) /\ call[t].overfull =>
          /\ call[t].status = "Normal"
          /\ call[t].pmsg = call[t].msg_len
          /\ transport.peers_pending # <<>>
          /\ (~transport.is_edge_triggered_recv =>
                transport.is_pending_read /\ transport.pending_notify))

\* C8, amended: the same for a call with msg_len >= 1 that is entered with
\* is_reset clear and does not end by reporting a reset
C8_FullVector ==
  \A t \in Threads :
    /\ call[t].pmsg <= call[t].msg_len
    /\ (call[t].overfull /\ ~call[t].fast /\ call[t].msg_len > 0 =>
          ~Reading(t))
    /\ (Returned(t) /\ call[t].overfull /\ ~call[t].fast
          /\ call[t].msg_len > 0 /\ call[t].status # "Eof" =>
          /\ call[t].status = "Normal"
          /\ call[t].pmsg = call[t].msg_len
          /\ transport.peers_pending # <<>>
          /\ (~transport.is_edge_triggered_recv =>
                transport.is_pending_read /\ transport.pending_notify))

C8_Witness ==
  \E t \in Threads :
    /\ Returned(t) /\ call[t].overfull /\ call[t].status = "Normal"
    /\ call[t].msg_len = 2 /\ call[t].pmsg = 2
    /\ Ready(transport) > 0
    /\ ~transport.is_edge_triggered_recv /\ transport.pending_notify

C10_SignalledMeansPending ==
  (/\ ~transport.is_edge_triggered_recv
   /\ \A t \in Threads : call[t].pc = "idle"
   /\ transport.is_pending_read) =>
     transport.peers_pending # <<>>

\* the positions at which a call's next step reads or writes is_reset,
\* peers_pending, is_pending_read or rx_buffer
AccessingPcs == {"reset", "recv_again", "wait", "out_reset"}

\* C15: with several threads calling, every read or write of is_reset,
\* peers_pending, is_pending_read and rx_buffer by a delivery call is made
\* while the thread holds pending_mutex, the reset check at entry and the
\* reset report on the exit path included
C15_AccessUnderMutex ==
  \A t \in Threads :
    call[t].pc \in AccessingPcs => transport.pending_mutex = t

\* one reset-reporting step with is_abort_on_reset false
C16_ClearStep ==
  \A t \in Threads :
    (/\ call[t].pc \in {"reset", "out_reset"}
     /\ call'[t].pc = "idle" /\ call'[t].status = "Eof"
     /\ ~transport.is_abort_on_reset) =>
       /\ ~(~transport.is_reset /\ transport'.is_reset)
       /\ ((\A u \in Threads \ {t} : call[u].pc # "reset") =>
             ~transport'.is_reset)

\* C16: with is_abort_on_reset false the reset report acts as a clear: under
\* any interleaving it never takes is_reset from false to true, and when the
\* last call that saw the reset has returned is_reset is false
C16_ReportClears == [][C16_ClearStep]_vars

\* a step that is an observed pass of thread t's read loop
Pass(t) == call[t].pc = "recv_again" /\ pkt'.n = pkt.n + 1

\* C11: on a transport with can_send_data the counter
\* SOURCE_PACKETS_DISCARDED grows by one for every frame that was read and
\* then rejected by the wire parser, the classifier, the upstream handler or
\* the downstream handler, and by nothing for a frame that was accepted or
\* not read (nothing is asked of a frame the peer handler rejects)
C11_DiscardsCounted ==
  [][\A t \in Threads :
       Pass(t) /\ transport.can_send_data /\ ~(pkt'.handler = "peer" /\ ~pkt'.ok) =>
         transport'.cumulative_stats["SOURCE_PACKETS_DISCARDED"]
           - transport.cumulative_stats["SOURCE_PACKETS_DISCARDED"]
         = IF pkt'.read /\ ~pkt'.ok THEN 1 ELSE 0]_vars

\* one observed pass and the peer mapping
C12_PeerStep ==
  \A t \in Threads :
    /\ \A p \in TSIs : transport.peers_hashtable[p] <= 1
    /\ \A p \in TSIs : transport'.peers_hashtable[p] <= 1
    /\ (Pass(t) /\ pkt'.read /\ pkt'.ok /\ pkt'.handler = "downstream" =>
          transport'.peers_hashtable =
             IF pkt'.f.tsi \in Peers(transport)
             THEN transport.peers_hashtable
             ELSE [transport.peers_hashtable EXCEPT ![pkt'.f.tsi] = 1])

\* C12: a downstream packet that on_downstream accepts adds exactly one
\* entry to the peer mapping, keyed by its TSI, when that TSI is not in the
\* mapping, and none when it is: the mapping never holds two peers for a TSI
C12_OnePeerPerTsi == [][C12_PeerStep]_vars

C12_Witness ==
  /\ pkt.n = 2 /\ pkt.read /\ pkt.ok /\ pkt.handler = "downstream"
  /\ transport.peers_hashtable = [p \in TSIs |-> 1]
  /\ transport.peer_stats[pkt.f.tsi]["RECEIVER_BYTES_RECEIVED"]
       > sizeof_pgm_header + MaxApduLen

\* C14: an accepted ODATA frame with an N-byte payload from a new TSI adds
\* exactly N to that peer's RECEIVER_BYTES_RECEIVED, and the call that
\* delivers it reports N more bytes read
C14_BytesReceived ==
  [][\A t \in Threads :
       (/\ Pass(t) /\ pkt'.read /\ pkt'.ok /\ pkt'.handler = "downstream"
        /\ pkt'.f.type = "ODATA" /\ pkt'.f.apdu > 0
        /\ pkt'.f.tsi \notin Peers(transport)) =>
          /\ transport'.peer_stats[pkt'.f.tsi]["RECEIVER_BYTES_RECEIVED"]
               = pkt'.f.apdu
          /\ (transport.peers_pending = <<>> =>
                call'[t].bytes_read = call[t].bytes_read + pkt'.f.apdu)]_vars

\* the outcome C17 names for a parsed frame
C17_Route(tr, f) ==
  IF f.type \in {"ODATA", "RDATA", "NCF", "SPM", "POLL"} THEN "downstream"
  ELSE IF f.dport = tr.sport /\ f.type \in {"NAK", "NNAK", "SPMR", "POLR"}
  THEN "upstream"
  ELSE IF f.dport # tr.sport /\ f.type \in {"NAK", "SPMR"} THEN "peer"
  ELSE "none"

\* C17: on_pgm routes every parsed frame to exactly one outcome: downstream,
\* upstream (source set to none), peer, or a discard with no handler called
C17_Routing ==
  [][\A t \in Threads :
       Pass(t) /\ pkt'.read /\ pkt'.f.valid =>
         /\ pkt'.handler = C17_Route(transport, pkt'.f)
         /\ (pkt'.handler = "upstream" => pkt'.source = NoPeer)
         /\ (pkt'.handler = "none" =>
               /\ ~pkt'.ok
               /\ [transport' EXCEPT !.cumulative_stats = transport.cumulative_stats]
                    = transport)]_vars

C17_Witness ==
  /\ pkt.n = 2 /\ pkt.read /\ pkt.f.valid /\ pkt.handler = "none"
  /\ pkt.f.type = "NNAK"

\* C13: a pgm_recvfrom call that took an APDU off the window returns Normal
\* and reports min(len, APDU length) bytes: the whole APDU when it fits, len
\* bytes when it does not.
C13_RecvfromBytes ==
  \A t \in Callers :
    (call[t].len # NoBuffer /\ call[t].data_read > 0 /\ call[t].pc \in {"idle", "abort"})
      => /\ call[t].pc = "idle"
         /\ call[t].status = "Normal"
         /\ call[t].bytes_out = IF call[t].len < call[t].bytes_read
                                THEN call[t].len ELSE call[t].bytes_read

\* C18 as stated: EAGAIN iff the socket was readable, EINTR iff another
\* descriptor was (and the socket was not), EFAULT when poll failed; a wait
\* that timed out is none of the three descriptor answers.
C18_Original ==
  \A t \in Callers :
    call[t].wait_status # "none" /\ call[t].ready # "none" =>
      /\ call[t].wait_status = "EAGAIN" <=> call[t].ready \in {"sock", "both"}
      /\ call[t].wait_status = "EINTR" <=> call[t].ready = "other"
      /\ call[t].wait_status = "EFAULT" <=> call[t].ready = "error"

\* C18 amended: EAGAIN iff the socket was readable, EFAULT iff poll failed,
\* EINTR otherwise: another descriptor alone was readable or the wait timed
\* out.
C18_WaitStatus ==
  \A t \in Callers :
    call[t].wait_status # "none" /\ call[t].ready # "none" =>
      /\ call[t].wait_status = "EAGAIN" <=> call[t].ready \in {"sock", "both"}
      /\ call[t].wait_status = "EINTR" <=> call[t].ready \in {"other", "timeout"}
      /\ call[t].wait_status = "EFAULT" <=> call[t].ready = "error"

C18_Witness ==
  \E t \in Callers :
    call[t].wait_status = "EINTR" /\ call[t].ready = "timeout"

\* C19: wait_for_event is never entered with a timeout of 0, so the
\* assertion of line 482 never fails.
C19_TimeoutNonzero ==
  \A t \in Callers :
    ~(call[t].pc = "abort" /\ call[t].timeout = 0)

\* C20: when the timer dispatch of a call completed an APDU and the vector
\* has room, the same call delivers before it waits or returns: it has read
\* data, it is not in wait_for_event, and if it returns with room left in
\* the vector nothing is pending any more.
C20_TimerFlushed ==
  \A t \in Callers :
    call[t].timer_data /\ call[t].msg_len > 0 /\ call[t].pc # "abort" =>
      /\ call[t].data_read > 0
      /\ ~InWait(t)
      /\ Returned(t) =>
           /\ call[t].status = "Normal"
           /\ call[t].pmsg < call[t].msg_len => transport.peers_pending = <<>>

\* a blocking call woken by the timer (EINTR) whose dispatch completed an
\* APDU has returned it
C20_Witness ==
  \E t \in Callers :
    /\ call[t].timer_data /\ call[t].wait_status = "EINTR"
    /\ Returned(t) /\ call[t].status = "Normal" /\ call[t].bytes_out > 0

\* the frame of an observed pass was an ODATA or RDATA packet that the
\* receive window accepted
WindowAccepted(p) ==
  /\ p.read /\ p.f.valid /\ p.handler = "downstream" /\ p.ok
  /\ p.f.type \in {"ODATA", "RDATA"}

\* C21: rx_buffer is never NULL, and a pass of the read loop replaces it by
\* a fresh buffer exactly when the frame it read was an ODATA or RDATA packet
\* that the receive window accepted; after any other frame it is the same
\* buffer as before
C21_RxBuffer ==
  /\ transport.rx_buffer # NullBuffer
  /\ [][\A t \in Threads :
          /\ transport'.rx_buffer # NullBuffer
          /\ Pass(t) =>
               /\ WindowAccepted(pkt') <=> transport'.rx_buffer # transport.rx_buffer
               /\ transport'.rx_buffer > transport.rx_buffer
                    \/ transport'.rx_buffer = transport.rx_buffer]_vars

C21_Witness ==
  /\ pkt.n = 2 /\ ~WindowAccepted(pkt)
  /\ pkt.read /\ pkt.f.type = "ODATA" /\ pkt.handler = "downstream"
  /\ transport.rx_buffer = FirstBuffer + 1

\* C22: the peer mapping gains an entry only when a valid downstream packet
\* from an unknown TSI arrives: a pass whose frame is discarded, or is not a
\* downstream frame, leaves the mapping as it was
C22_PeersOnlyFromValid ==
  [][\A t \in Threads :
       Pass(t) /\ transport'.peers_hashtable # transport.peers_hashtable =>
         /\ pkt'.read /\ pkt'.f.valid /\ pkt'.handler = "downstream" /\ pkt'.ok
         /\ pkt'.f.tsi \notin Peers(transport)]_vars

\* C24: without can_recv_data a downstream or peer-to-peer frame makes no
\* peer, reaches no receive-side processor, changes no peer statistic and
\* marks no peer pending; without can_send_data an upstream frame reaches no
\* transmit-side processor
C24_MutedSides ==
  [][\A t \in Threads :
       Pass(t) /\ pkt'.read /\ pkt'.f.valid =>
         /\ (~transport.can_recv_data /\ pkt'.handler \in {"downstream", "peer"} =>
               /\ transport'.peers_hashtable = transport.peers_hashtable
               /\ pkt'.proc = "none"
               /\ transport'.peer_stats = transport.peer_stats
               /\ transport'.peers_pending = transport.peers_pending)
         /\ (~transport.can_send_data /\ pkt'.handler = "upstream" =>
               pkt'.proc = "none")]_vars

\* a blocking call that has delivered nothing is back at wait_for_event
\* after EINTR, the timer dispatch having made no peer pending
C23_TimerOnly(t) ==
  /\ ~call[t].dontwait /\ call[t].pc = "wait" /\ call[t].wait_status = "EINTR"
  /\ call[t].data_read = 0 /\ transport.peers_pending = <<>>

\* what ends the case C23 is about: the socket becomes readable, the timer
\* completes an APDU or detects a reset, or the wait fails
C23_Excused(t) ==
  \/ call[t].ready \in {"sock", "both", "error"}
  \/ call[t].timer_data \/ transport.is_reset \/ transport.peers_pending # <<>>
  \/ call[t].pc = "abort" \/ call[t].status = "Error"

\* C23: a blocking call that has no data and sees only timer or notification
\* events, never socket data, eventually returns Again instead of waiting
\* for ever
C23_EventuallyAgain ==
  \A t \in Callers :
    C23_TimerOnly(t) ~>
      ((Returned(t) /\ call[t].status = "Again") \/ C23_Excused(t))

====
